---- MODULE Spec2Model ----
(***************************************************************************)
(* Model of the kurishiro-api-worker edge handler (src/src/index.ts,       *)
(* lines 1-293): CORS policy, the lazily initialised engine singleton,     *)
(* the request router, the plain and the chat-completions handlers, the    *)
(* model-string decoding and the SSE stream producer.                      *)
(*                                                                         *)
(* Strings are sequences of chunks; a chunk is a hyphen-free word or the   *)
(* hyphen itself, and the string is the concatenation of its chunks.  No   *)
(* chunk is a prefix of another, so two strings are equal exactly when     *)
(* their chunk sequences are equal.  JSON values are records [t, v] with   *)
(* t the JavaScript typeof-like tag and v the chunk sequence of a string.  *)
(***************************************************************************)
EXTENDS Integers, Sequences, FiniteSets, TLC

(* ------------------------------ bounds -------------------------------- *)
NReq == 2          \* overlapping requests in the concurrent specification
MaxLen == 2        \* longest converted string the engine returns
MaxModelLen == 4   \* longest model string (in chunks) given to the decoder

(* ---------------------------- JSON values ------------------------------ *)
Undef == [t |-> "undefined", v |-> <<>>]
Null  == [t |-> "null", v |-> <<>>]
Num   == [t |-> "number", v |-> <<>>]
True  == [t |-> "boolean", v |-> <<"true">>]
False == [t |-> "boolean", v |-> <<"false">>]
Str(s) == [t |-> "string", v |-> s]

RECURSIVE SeqsUpTo(_, _)
SeqsUpTo(S, n) ==
  IF n = 0 THEN {<<>>}
  ELSE LET shorter == SeqsUpTo(S, n - 1)
       IN  shorter \cup {Append(s, x) : s \in {q \in shorter : Len(q) = n - 1}, x \in S}

(* ------------------------- CORS (lines 16-40) -------------------------- *)
allowedOrigin == "https://sotsuken-odai.pages.dev"

NoOrigin == [t |-> "null", v |-> ""]
Origin(s) == [t |-> "string", v |-> s]

CorsHeaderSet ==
  { <<"Access-Control-Allow-Origin", allowedOrigin>>,
    <<"Access-Control-Allow-Methods", "GET,POST,OPTIONS">>,
    <<"Access-Control-Allow-Headers", "Content-Type, Authorization">>,
    <<"Access-Control-Max-Age", "86400">>,
    <<"Vary", "Origin">> }

\* Variant: any origin that is present is echoed.
getCorsHeaders_AnyOrigin(origin) ==
  IF origin = NoOrigin THEN {} ELSE CorsHeaderSet

getCorsHeaders(origin) ==
  IF origin # Origin(allowedOrigin) THEN {} ELSE CorsHeaderSet

\* Headers.set: the new value replaces any header of the same name.
HeadersSet(headers, extra) ==
  {h \in headers : \A e \in extra : e[1] # h[1]} \cup extra

withCors(response, origin) ==
  [response EXCEPT !.headers = HeadersSet(response.headers, getCorsHeaders(origin))]

JsonHeaders == {<<"Content-Type", "application/json">>}
SseHeaders ==
  { <<"Content-Type", "text/event-stream">>,
    <<"Cache-Control", "no-cache">>,
    <<"Connection", "keep-alive">> }

\* new Response(body, {status, headers}); kind abstracts the body.
Response(status, kind, headers) == [status |-> status, kind |-> kind, headers |-> headers]
NoResponse == Response(0, "none", {})

(* ------------------ model-string decoding (lines 148-167) -------------- *)
validTo == {<<"hiragana">>, <<"katakana">>, <<"romaji">>}
validMode == {<<"normal">>, <<"spaced">>, <<"okurigana">>, <<"furigana">>}

\* String.prototype.includes("-")
IncludesHyphen(s) == \E i \in 1..Len(s) : s[i] = "-"

\* String.prototype.split("-"): the segments between the hyphens, in order.
\* Variant: only the first hyphen separates.
Split_FirstOnly(s) ==
  IF ~IncludesHyphen(s) THEN <<s>>
  ELSE LET i == CHOOSE k \in 1..Len(s) : s[k] = "-" /\ \A j \in 1..(k - 1) : s[j] # "-"
       IN  <<SubSeq(s, 1, i - 1), SubSeq(s, i + 1, Len(s))>>

RECURSIVE Split(_)
Split(s) ==
  IF ~IncludesHyphen(s) THEN <<s>>
  ELSE LET i == CHOOSE k \in 1..Len(s) : s[k] = "-" /\ \A j \in 1..(k - 1) : s[j] # "-"
       IN  <<SubSeq(s, 1, i - 1)>> \o Split(SubSeq(s, i + 1, Len(s)))

\* parts[i] with JavaScript's 0-based index; out of range is undefined.
At(parts, i) == IF i + 1 \in 1..Len(parts) THEN Str(parts[i + 1]) ELSE Undef

\* Array.prototype.includes on an array of strings, for any JSON value.
Includes(valid, x) == x.t = "string" /\ x.v \in valid

\* Variant: a valid separate mode field wins over the model string.
ParseModel_ModeFieldWins(model, mode) ==
  IF model.t = "string" /\ IncludesHyphen(model.v)
  THEN LET parts == Split(model.v)
       IN  [to |-> IF Includes(validTo, At(parts, 0)) THEN At(parts, 0) ELSE Str(<<"hiragana">>),
            mode |-> IF Includes(validMode, mode) THEN mode
                     ELSE IF Includes(validMode, At(parts, 1)) THEN At(parts, 1)
                     ELSE Str(<<"normal">>)]
  ELSE [to |-> IF Includes(validTo, model) THEN model ELSE Str(<<"hiragana">>),
        mode |-> IF Includes(validMode, mode) THEN mode ELSE Str(<<"normal">>)]

ParseModel(model, mode) ==
  IF model.t = "string" /\ IncludesHyphen(model.v)
  THEN LET parts == Split(model.v)
       IN  IF Len(parts) = 2 /\ Includes(validTo, At(parts, 0)) /\ Includes(validMode, At(parts, 1))
           THEN [to |-> At(parts, 0), mode |-> At(parts, 1)]
           ELSE [to |-> IF Includes(validTo, At(parts, 0)) THEN At(parts, 0) ELSE Str(<<"hiragana">>),
                 mode |-> IF Includes(validMode, At(parts, 1)) THEN At(parts, 1) ELSE Str(<<"normal">>)]
  ELSE [to |-> IF Includes(validTo, model) THEN model ELSE Str(<<"hiragana">>),
        mode |-> IF Includes(validMode, mode) THEN mode ELSE Str(<<"normal">>)]

(* --------------------------- request bodies ---------------------------- *)
\* The value of body.messages: a JSON value that may be an array of items.
Msgs(t, items) == [t |-> t, items |-> items]
NoMsgs == Msgs("undefined", <<>>)
\* One element of the messages array.
Msg(t, role, content) == [t |-> t, role |-> role, content |-> content]

\* A parsed JSON object with the properties the handlers read; an absent
\* property is undefined.
Obj(messages, model, mode, stream, text, to) ==
  [kind |-> "object", messages |-> messages, model |-> model, mode |-> mode,
   stream |-> stream, text |-> text, to |-> to]
\* A body that is not an object: "bad" (not JSON), "null", "number",
\* "string", "array".  Reading a property of a non-null primitive or of an
\* array without that property gives undefined.
NonObj(kind) ==
  [kind |-> kind, messages |-> NoMsgs, model |-> Undef, mode |-> Undef,
   stream |-> Undef, text |-> Undef, to |-> Undef]
NoBody == NonObj("unread")

(* ------------------------------- state --------------------------------- *)
VARIABLES
  env,        \* what the clients and the engine may produce in this run
  kuro,       \* the module-level handle: 0 is null, else an engine id
  engines,    \* engines constructed so far, each "pending", "ready" or "failed"
  initCalls,  \* number of kuro.init invocations so far
  req,        \* per request slot: position in fetch, inputs, response
  ens,        \* per request slot: what its ensureInitialized call did
  conv,       \* per request slot: its call of kuro.convert
  strm,       \* per request slot: the ReadableStream and its start() task
  pin,        \* input of the model-string decoding (decoder specification)
  pout        \* its output

vars == <<env, kuro, engines, initCalls, req, ens, conv, strm, pin, pout>>

IdleReq ==
  [pc |-> "idle", handler |-> "none", method |-> "", path |-> "", origin |-> NoOrigin,
   body |-> NoBody, prompt |-> <<>>, to |-> Undef, mode |-> Undef, stream |-> FALSE,
   resp |-> NoResponse]
NoEns == [how |-> "none", eng |-> 0, seen |-> "none"]
NoConv == [on |-> "none", text |-> <<>>, to |-> Undef, mode |-> Undef]
NoStrm == [pc |-> "idle", state |-> "none", converted |-> <<>>, pos |-> 0, frames |-> <<>>]
NoPair == [to |-> Undef, mode |-> Undef]

(* --------------------------- input universes --------------------------- *)
Methods == {"OPTIONS", "GET", "POST", "PUT"}
Paths == {"/", "/v1/chat/completions", "/v1/chat/completions/", "/nope"}
Origins ==
  { NoOrigin, Origin(allowedOrigin), Origin("https://sotsuken-odai.pages.dev/"),
    Origin("http://sotsuken-odai.pages.dev") }

UserMsg(content) == Msg("object", Str(<<"user">>), Str(content))
MessagesValues ==
  { NoMsgs, Msgs("string", <<>>), Msgs("object", <<>>), Msgs("array", <<>>),
    Msgs("array", <<Msg("null", Undef, Undef)>>),
    Msgs("array", <<Msg("number", Undef, Undef)>>),
    Msgs("array", <<Msg("object", Undef, Str(<<"a">>))>>),
    Msgs("array", <<Msg("object", Str(<<"assistant">>), Str(<<"a">>))>>),
    Msgs("array", <<Msg("object", Str(<<"user">>), Num)>>),
    Msgs("array", <<UserMsg(<<"a", "b">>)>>),
    Msgs("array", <<Msg("null", Undef, Undef), UserMsg(<<>>)>>) }
ModelValues ==
  { Undef, Num, Str(<<"katakana">>), Str(<<"bogus">>), Str(<<"romaji", "-", "spaced">>),
    Str(<<"bogus", "-", "furigana">>), Str(<<"hiragana", "-", "spaced", "-", "normal">>) }
ModeValues == {Undef, Null, Str(<<"okurigana">>), Str(<<"bogus">>)}
StreamValues == {Undef, True, False, Str(<<"true">>)}
TextValues == {Undef, Null, Num, Str(<<>>), Str(<<"a">>)}
ToValues == {Undef, Null, Num, Str(<<"romaji">>), Str(<<"bogus">>), Str(<<"romaji", "-", "spaced">>)}

ChatBodies ==
  { Obj(m, model, mode, stream, Undef, Undef) :
      m \in MessagesValues, model \in ModelValues, mode \in ModeValues, stream \in StreamValues }
PlainBodies ==
  { Obj(NoMsgs, Undef, mode, Undef, text, to) :
      text \in TextValues, to \in ToValues, mode \in ModeValues }
OtherBodies == {NonObj(k) : k \in {"bad", "null", "number", "string", "array"}}

Chars == {"a", "b"}
Outputs == SeqsUpTo(Chars, MaxLen)

\* env = "all": one request at a time, every input.
\* env = "overlap": NReq overlapping requests, the inputs that reach the engine.
AllBodies == ChatBodies \cup PlainBodies \cup OtherBodies
EngineBodies ==
  { Obj(Msgs("array", <<UserMsg(<<"a">>)>>), Undef, Undef, True, Undef, Undef),
    Obj(Msgs("array", <<UserMsg(<<"a">>)>>), Undef, Undef, Undef, Undef, Undef),
    Obj(NoMsgs, Undef, Undef, Undef, Str(<<"a">>), Undef) }
SlotsOf(e) == IF e = "all" THEN {1} ELSE 1..NReq
Slots == SlotsOf(env)
MethodsIn == IF env = "all" THEN Methods ELSE {"POST"}
PathsIn == IF env = "all" THEN Paths ELSE {"/", "/v1/chat/completions"}
OriginsIn == IF env = "all" THEN Origins ELSE {Origin(allowedOrigin)}
BodiesIn == IF env = "all" THEN AllBodies ELSE EngineBodies
OutputsIn == IF env = "all" THEN Outputs ELSE {<<"a">>}

ProcessInit(e) ==
  /\ env = e
  /\ kuro = 0
  /\ engines = <<>>
  /\ initCalls = 0
  /\ req = [r \in SlotsOf(e) |-> IdleReq]
  /\ ens = [r \in SlotsOf(e) |-> NoEns]
  /\ conv = [r \in SlotsOf(e) |-> NoConv]
  /\ strm = [r \in SlotsOf(e) |-> NoStrm]

NoInput == [model |-> Undef, mode |-> Undef]

Init == ProcessInit("all") /\ pin = NoInput /\ pout = NoPair
ConcInit == ProcessInit("overlap") /\ pin = NoInput /\ pout = NoPair

(* ------------------- engine lifecycle (lines 80-88) -------------------- *)
\* The synchronous part of ensureInitialized, up to its await: when the
\* handle is null, construct an engine, store the handle and invoke init.
\* Variant: the test is on the engine being ready, not on the handle.
ensureInitialized_UnlessReady(r) ==
  IF kuro = 0 \/ engines[kuro] # "ready"
  THEN /\ engines' = Append(engines, "pending")
       /\ kuro' = Len(engines) + 1
       /\ initCalls' = initCalls + 1
       /\ ens' = [ens EXCEPT ![r] = [how |-> "started", eng |-> Len(engines) + 1, seen |-> "null"]]
  ELSE /\ ens' = [ens EXCEPT ![r] = [how |-> "noop", eng |-> kuro, seen |-> engines[kuro]]]
       /\ UNCHANGED <<kuro, engines, initCalls>>

ensureInitialized(r) ==
  IF kuro = 0
  THEN /\ engines' = Append(engines, "pending")
       /\ kuro' = Len(engines) + 1
       /\ initCalls' = initCalls + 1
       /\ ens' = [ens EXCEPT ![r] = [how |-> "started", eng |-> Len(engines) + 1, seen |-> "null"]]
  ELSE /\ ens' = [ens EXCEPT ![r] = [how |-> "noop", eng |-> kuro, seen |-> engines[kuro]]]
       /\ UNCHANGED <<kuro, engines, initCalls>>

\* The promise returned by ensureInitialized has settled.
EnsureSettled(r) ==
  \/ ens[r].how = "noop"
  \/ ens[r].how = "started" /\ engines[ens[r].eng] # "pending"
\* ... and it was rejected: the awaited init threw.
EnsureRejected(r) == ens[r].how = "started" /\ engines[ens[r].eng] = "failed"

\* The engine's init (dictionary download) completes.
InitSucceed(e) ==
  /\ e \in 1..Len(engines)
  /\ engines[e] = "pending"
  /\ engines' = [engines EXCEPT ![e] = "ready"]
  /\ UNCHANGED <<env, kuro, initCalls, req, ens, conv, strm, pin, pout>>

InitFail(e) ==
  /\ e \in 1..Len(engines)
  /\ engines[e] = "pending"
  /\ engines' = [engines EXCEPT ![e] = "failed"]
  /\ UNCHANGED <<env, kuro, initCalls, req, ens, conv, strm, pin, pout>>

(* ----------------------- router (lines 91-119, 251-292) ---------------- *)
\* Variant: the chat path is tested before the preflight.
Route_PathFirst(method, path) ==
  IF path = "/v1/chat/completions"
  THEN IF method # "POST" THEN "405" ELSE "chat"
  ELSE IF method = "OPTIONS" THEN "preflight"
  ELSE IF method = "GET" /\ path = "/" THEN "uuid"
  ELSE IF method = "POST" /\ path = "/" THEN "plain"
  ELSE "404"

Route(method, path) ==
  IF method = "OPTIONS" THEN "preflight"
  ELSE IF method = "GET" /\ path = "/" THEN "uuid"
  ELSE IF path = "/v1/chat/completions"
       THEN IF method # "POST" THEN "405" ELSE "chat"
  ELSE IF method = "POST" /\ path = "/" THEN "plain"
  ELSE "404"

Preflight(origin) ==
  IF origin # Origin(allowedOrigin)
  THEN Response(403, "Forbidden", {})
  ELSE Response(204, "", getCorsHeaders(origin))

Json(status, kind, origin) == withCors(Response(status, kind, JsonHeaders), origin)

\* fetch from its entry to its first await or return.
Fetch(r) ==
  /\ req[r].pc = "idle"
  /\ \E method \in MethodsIn, path \in PathsIn, origin \in OriginsIn :
       LET in == [IdleReq EXCEPT !.method = method, !.path = path, !.origin = origin]
           row == Route(method, path)
           answer(resp) == [in EXCEPT !.pc = "done", !.resp = resp]
       IN  req' = [req EXCEPT ![r] =
                     CASE row = "preflight" -> answer(Preflight(origin))
                       [] row = "uuid" -> answer(Json(200, "uuid", origin))
                       [] row = "405" -> answer(Json(405, "Method Not Allowed", origin))
                       [] row = "404" -> answer(Json(404, "Not Found", origin))
                       [] OTHER -> [in EXCEPT !.pc = "json", !.handler = row]]
  /\ UNCHANGED <<env, kuro, engines, initCalls, ens, conv, strm, pin, pout>>

(* ------------------ chat-completions handler (lines 121-249) ----------- *)
\* Lines 121-144: the outcome of parsing and validating the body.
ChatValidate(body) ==
  IF body.kind = "bad" THEN "Invalid JSON body"
  ELSE IF body.kind = "null" THEN "TypeError"          \* body.messages of null
  ELSE IF body.messages.t # "array" \/ Len(body.messages.items) = 0 THEN "Invalid format"
  ELSE LET last == body.messages.items[Len(body.messages.items)]
       IN  IF last.t = "null" THEN "TypeError"         \* last.role of null
           ELSE IF last.role # Str(<<"user">>) \/ last.content.t # "string" THEN "Invalid message"
           ELSE "ok"

\* request.json() settles; validation, decoding and the call of
\* ensureInitialized follow without suspension.
ChatJson(r) ==
  /\ req[r].pc = "json" /\ req[r].handler = "chat"
  /\ \E body \in BodiesIn :
       LET v == ChatValidate(body)
           got == [req[r] EXCEPT !.body = body]
       IN  IF v = "ok"
           THEN LET last == body.messages.items[Len(body.messages.items)]
                    pair == ParseModel(body.model, body.mode)
                IN  /\ req' = [req EXCEPT ![r] =
                                 [got EXCEPT !.pc = "init", !.prompt = last.content.v,
                                             !.to = pair.to, !.mode = pair.mode,
                                             !.stream = (body.stream = True)]]
                    /\ ensureInitialized(r)
           ELSE /\ req' = [req EXCEPT ![r] =
                             IF v = "TypeError" THEN [got EXCEPT !.pc = "thrown"]
                             ELSE [got EXCEPT !.pc = "done", !.resp = Json(400, v, req[r].origin)]]
                /\ UNCHANGED <<kuro, engines, initCalls, ens>>
  /\ UNCHANGED <<env, conv, strm, pin, pout>>

(* ----------------------- plain handler (lines 251-282) ----------------- *)
\* A destructuring default: used only when the property is undefined.
\* Variant: null is defaulted as well.
Default_Nullish(v, d) == IF v \in {Undef, Null} THEN d ELSE v

Default(v, d) == IF v = Undef THEN d ELSE v

PlainValidate(payload) ==
  IF payload.kind = "bad" THEN "Invalid JSON body"
  ELSE IF payload.kind = "null" THEN "TypeError"       \* destructuring null
  ELSE IF payload.text.t # "string" THEN "text must be a string"
  ELSE "ok"

PlainJson(r) ==
  /\ req[r].pc = "json" /\ req[r].handler = "plain"
  /\ \E payload \in BodiesIn :
       LET v == PlainValidate(payload)
           got == [req[r] EXCEPT !.body = payload]
       IN  IF v = "ok"
           THEN /\ req' = [req EXCEPT ![r] =
                             [got EXCEPT !.pc = "init", !.prompt = payload.text.v,
                                         !.to = Default(payload.to, Str(<<"hiragana">>)),
                                         !.mode = Default(payload.mode, Str(<<"normal">>))]]
                /\ ensureInitialized(r)
           ELSE /\ req' = [req EXCEPT ![r] =
                             IF v = "TypeError" THEN [got EXCEPT !.pc = "thrown"]
                             ELSE [got EXCEPT !.pc = "done", !.resp = Json(400, v, req[r].origin)]]
                /\ UNCHANGED <<kuro, engines, initCalls, ens>>
  /\ UNCHANGED <<env, conv, strm, pin, pout>>

(* ------------- after ensureInitialized (lines 170-189, 267-281) -------- *)
\* catch of `await ensureInitialized()`.
InitFailed(r) ==
  /\ req[r].pc = "init"
  /\ EnsureSettled(r) /\ EnsureRejected(r)
  /\ req' = [req EXCEPT ![r].pc = "done",
                        ![r].resp = Json(500, "Initialization failed", req[r].origin)]
  /\ UNCHANGED <<env, kuro, engines, initCalls, ens, conv, strm, pin, pout>>

\* kuro!.convert(prompt, {to, mode}) is called on the module-level handle.
Convert(r) ==
  /\ req[r].pc = "init"
  /\ EnsureSettled(r) /\ ~EnsureRejected(r)
  /\ conv' = [conv EXCEPT ![r] = [on |-> engines[kuro], text |-> req[r].prompt,
                                  to |-> req[r].to, mode |-> req[r].mode]]
  /\ req' = [req EXCEPT ![r].pc = "conv"]
  /\ UNCHANGED <<env, kuro, engines, initCalls, ens, strm, pin, pout>>

\* convert rejects.
ConvertFailed(r) ==
  /\ req[r].pc = "conv"
  /\ req' = [req EXCEPT ![r].pc = "done",
                        ![r].resp = Json(500, "Conversion failed", req[r].origin)]
  /\ UNCHANGED <<env, kuro, engines, initCalls, ens, conv, strm, pin, pout>>

\* convert resolves in the plain handler.
PlainRespond(r) ==
  /\ req[r].pc = "conv" /\ req[r].handler = "plain"
  /\ \E converted \in OutputsIn :
       strm' = [strm EXCEPT ![r].converted = converted]
  /\ req' = [req EXCEPT ![r].pc = "done", ![r].resp = Json(200, "converted", req[r].origin)]
  /\ UNCHANGED <<env, kuro, engines, initCalls, ens, conv, pin, pout>>

\* convert resolves in the chat handler, stream is false.
ChatRespond(r) ==
  /\ req[r].pc = "conv" /\ req[r].handler = "chat" /\ ~req[r].stream
  /\ \E converted \in OutputsIn :
       strm' = [strm EXCEPT ![r].converted = converted]
  /\ req' = [req EXCEPT ![r].pc = "done", ![r].resp = Json(200, "chat.completion", req[r].origin)]
  /\ UNCHANGED <<env, kuro, engines, initCalls, ens, conv, pin, pout>>

(* ---------------------- SSE stream (lines 216-248) --------------------- *)
ContentFrame(ch) == [delta |-> <<ch>>, finish_reason |-> "null"]
DoneFrame == [delta |-> <<>>, finish_reason |-> "stop"]

\* One run of start() from where it is to its next await or its end: the
\* loop body for the next character, or the terminal frame and close.
\* enqueue throws once the consumer has cancelled the stream.
\* Variant: the loop stops one character early.
StartRun_SkipLast(s) ==
  IF s.state = "cancelled" THEN [s EXCEPT !.pc = "threw"]
  ELSE IF s.pos + 1 < Len(s.converted)
       THEN [s EXCEPT !.pc = "sleeping", !.pos = s.pos + 1,
                      !.frames = Append(s.frames, ContentFrame(s.converted[s.pos + 1]))]
       ELSE [s EXCEPT !.pc = "returned", !.state = "closed",
                      !.frames = Append(s.frames, DoneFrame)]

StartRun(s) ==
  IF s.state = "cancelled" THEN [s EXCEPT !.pc = "threw"]
  ELSE IF s.pos < Len(s.converted)
       THEN [s EXCEPT !.pc = "sleeping", !.pos = s.pos + 1,
                      !.frames = Append(s.frames, ContentFrame(s.converted[s.pos + 1]))]
       ELSE [s EXCEPT !.pc = "returned", !.state = "closed",
                      !.frames = Append(s.frames, DoneFrame)]

\* convert resolves in the chat handler, stream is true: the stream is
\* constructed (start runs to its first await) and the response returned.
ChatStream(r) ==
  /\ req[r].pc = "conv" /\ req[r].handler = "chat" /\ req[r].stream
  /\ \E converted \in OutputsIn :
       strm' = [strm EXCEPT ![r] =
                  StartRun([NoStrm EXCEPT !.state = "readable", !.converted = converted])]
  /\ req' = [req EXCEPT ![r].pc = "done",
                        ![r].resp = withCors(Response(200, "event-stream", SseHeaders), req[r].origin)]
  /\ UNCHANGED <<env, kuro, engines, initCalls, ens, conv, pin, pout>>

\* The 10 ms timer fires.
StreamTick(r) ==
  /\ strm[r].pc = "sleeping"
  /\ strm' = [strm EXCEPT ![r] = StartRun(strm[r])]
  /\ UNCHANGED <<env, kuro, engines, initCalls, req, ens, conv, pin, pout>>

\* The client goes away while the stream is open.
Cancel(r) ==
  /\ strm[r].state = "readable"
  /\ strm' = [strm EXCEPT ![r].state = "cancelled"]
  /\ UNCHANGED <<env, kuro, engines, initCalls, req, ens, conv, pin, pout>>

\* The request is over (response delivered or fetch rejected, stream task
\* ended); the slot serves the next request.
Forget(r) ==
  /\ req[r].pc \in {"done", "thrown"}
  /\ strm[r].pc # "sleeping"
  /\ req' = [req EXCEPT ![r] = IdleReq]
  /\ ens' = [ens EXCEPT ![r] = NoEns]
  /\ conv' = [conv EXCEPT ![r] = NoConv]
  /\ strm' = [strm EXCEPT ![r] = NoStrm]
  /\ UNCHANGED <<env, kuro, engines, initCalls, pin, pout>>

Next ==
  \/ \E r \in Slots : Fetch(r)
  \/ \E r \in Slots : ChatJson(r)
  \/ \E r \in Slots : PlainJson(r)
  \/ \E e \in 1..Len(engines) : InitSucceed(e)
  \/ \E e \in 1..Len(engines) : InitFail(e)
  \/ \E r \in Slots : InitFailed(r)
  \/ \E r \in Slots : Convert(r)
  \/ \E r \in Slots : ConvertFailed(r)
  \/ \E r \in Slots : PlainRespond(r)
  \/ \E r \in Slots : ChatRespond(r)
  \/ \E r \in Slots : ChatStream(r)
  \/ \E r \in Slots : StreamTick(r)
  \/ \E r \in Slots : Cancel(r)
  \/ \E r \in Slots : Forget(r)

Spec == Init /\ [][Next]_vars
ConcSpec == ConcInit /\ [][Next]_vars

(* ------------------- decoder specification (lines 148-167) ------------- *)
ModelSyms ==
  {"hiragana", "katakana", "romaji", "normal", "spaced", "okurigana", "furigana", "bogus", "-"}
ModelInputs == {Undef, Null, Num, True} \cup {Str(s) : s \in SeqsUpTo(ModelSyms, MaxModelLen)}
ModeInputs ==
  {Undef, Null, Num} \cup {Str(m) : m \in validMode}
    \cup {Str(<<"bogus">>), Str(<<"romaji">>), Str(<<"normal", "-", "spaced">>)}

ParseInit ==
  /\ ProcessInit("all")
  /\ pin \in [model : ModelInputs, mode : ModeInputs]
  /\ pout = NoPair

\* Lines 148-167 applied to body.model and body.mode.
Decode ==
  /\ pout = NoPair
  /\ pout' = ParseModel(pin.model, pin.mode)
  /\ UNCHANGED <<env, kuro, engines, initCalls, req, ens, conv, strm, pin>>

ParseNext == Decode
ParseSpec == ParseInit /\ [][ParseNext]_vars

(* ======================= properties of the worker ====================== *)
Allowed == Origin(allowedOrigin)
CorsNames == {h[1] : h \in CorsHeaderSet}
Answered(r) == req[r].pc = "done"
Read(r) == req[r].pc \notin {"idle", "json"}
EngineUntouched(r) == ens[r] = NoEns /\ conv[r] = NoConv
IsValidTo(x) == x \in {Str(<<"hiragana">>), Str(<<"katakana">>), Str(<<"romaji">>)}
IsValidMode(x) ==
  x \in {Str(<<"normal">>), Str(<<"spaced">>), Str(<<"okurigana">>), Str(<<"furigana">>)}

\* C1: when engine initialization fails no handle is retained, and a request
\* that calls ensureInitialized after a failed init starts a fresh init
\* instead of treating the engine as ready.
C1_NoPoisoning ==
  /\ (kuro # 0 => engines[kuro] # "failed")
  /\ \A r \in Slots : ens[r].seen = "failed" => ens[r].how = "started"

\* C2: every returned response carries the CORS headers if and only if the
\* request's Origin equals the allowed origin; OPTIONS gets 204 with them
\* from the allowed origin and 403 without them from any other origin.
C2_CorsIffAllowedOrigin ==
  \A r \in Slots : Answered(r) =>
    LET h == req[r].resp.headers
    IN  /\ req[r].origin = Allowed => CorsHeaderSet \subseteq h
        /\ req[r].origin # Allowed => \A x \in h : x[1] \notin CorsNames
        /\ req[r].method = "OPTIONS" =>
             req[r].resp.status = (IF req[r].origin = Allowed THEN 204 ELSE 403)

C2_Witness ==
  \E r \in Slots :
    /\ Answered(r) /\ req[r].origin = Allowed
    /\ req[r].resp.status = 500 /\ req[r].resp.kind = "Conversion failed"
    /\ CorsHeaderSet \subseteq req[r].resp.headers

\* C3: the router answers by the first matching row: OPTIONS on any path is
\* a preflight that reaches no handler and no engine; GET / is 200; another
\* method than OPTIONS and POST on /v1/chat/completions is 405 with the body
\* unread and the engine untouched; POST / is the plain handler; every
\* other (method, path) is 404.
C3_RouterDispatch ==
  \A r \in Slots : req[r].pc # "idle" =>
    LET m == req[r].method
        p == req[r].path
        direct(statuses) ==
          /\ Answered(r) /\ req[r].resp.status \in statuses
          /\ req[r].handler = "none" /\ req[r].body = NoBody /\ EngineUntouched(r)
    IN  CASE m = "OPTIONS" -> direct({204, 403})
          [] m = "GET" /\ p = "/" -> direct({200})
          [] m \notin {"OPTIONS", "POST"} /\ p = "/v1/chat/completions" -> direct({405})
          [] m = "POST" /\ p = "/v1/chat/completions" -> req[r].handler = "chat"
          [] m = "POST" /\ p = "/" -> req[r].handler = "plain"
          [] OTHER -> direct({404})

C3_Witness ==
  \E r \in Slots :
    /\ req[r].method = "PUT" /\ req[r].path = "/v1/chat/completions"
    /\ Answered(r) /\ req[r].resp.status = 405

\* The first check of the chat handler that the body violates, by the
\* validation order JSON, messages, last message.
ChatViolation(b) ==
  IF b.kind = "bad" THEN "Invalid JSON body"
  ELSE IF ~(b.kind = "object" /\ b.messages.t = "array" /\ Len(b.messages.items) > 0)
       THEN "Invalid format"
  ELSE LET last == b.messages.items[Len(b.messages.items)]
       IN  IF ~(last.t = "object" /\ last.role = Str(<<"user">>) /\ last.content.t = "string")
           THEN "Invalid message"
           ELSE "none"

\* C4: a chat request that fails one of the three input checks gets the 400
\* of the first violated check, with the engine neither initialized nor
\* asked to convert.
C4_FirstViolationReported ==
  \A r \in Slots : (req[r].handler = "chat" /\ Read(r)) =>
    LET v == ChatViolation(req[r].body)
    IN  v # "none" =>
          /\ Answered(r) /\ req[r].resp.status = 400 /\ req[r].resp.kind = v
          /\ EngineUntouched(r)

\* The body is JSON but lacks what the handler requires.
BadFields(r) ==
  /\ req[r].body.kind # "bad"
  /\ \/ req[r].handler = "chat" /\ ChatViolation(req[r].body) # "none"
     \/ req[r].handler = "plain"
          /\ ~(req[r].body.kind = "object" /\ req[r].body.text.t = "string")

\* C5: a POST whose JSON body has missing or wrong-typed fields ends with a
\* 4xx response with an error body; fetch never throws on client input.
C5_ClientErrorsAre4xx ==
  \A r \in Slots :
    /\ req[r].pc # "thrown"
    /\ (Read(r) /\ BadFields(r)) =>
         Answered(r) /\ req[r].resp.status \in 400..499 /\ req[r].resp.kind # ""

\* The hyphen-free prefix of s that ends at its first hyphen, and the
\* hyphen-free stretch that follows that hyphen.
FirstSegment(s) ==
  LET n == CHOOSE k \in 0..(Len(s) - 1) : s[k + 1] = "-" /\ \A j \in 1..k : s[j] # "-"
  IN  [j \in 1..n |-> s[j]]
SecondSegment(s) ==
  LET n == Len(FirstSegment(s)) + 1
      m == CHOOSE k \in n..Len(s) :
             /\ \A j \in (n + 1)..k : s[j] # "-"
             /\ (k < Len(s) => s[k + 1] = "-")
  IN  [j \in 1..(m - n) |-> s[n + j]]
Decoded == pout # NoPair

\* C6: for every target and every mode, decoding "<to>-<mode>" gives
\* exactly (to, mode), whatever the separate mode field holds.
C6_ValidPairDecodes ==
  \A to \in {"hiragana", "katakana", "romaji"},
     mode \in {"normal", "spaced", "okurigana", "furigana"} :
    (Decoded /\ pin.model = Str(<<to, "-", mode>>)) =>
      pout = [to |-> Str(<<to>>), mode |-> Str(<<mode>>)]

C6_Witness ==
  /\ Decoded
  /\ pin = [model |-> Str(<<"katakana", "-", "okurigana">>), mode |-> Str(<<"spaced">>)]
  /\ pout = [to |-> Str(<<"katakana">>), mode |-> Str(<<"okurigana">>)]

\* C7: the decoding is total and always gives a valid target and a valid
\* mode; for a hyphenated model the target is the first segment if that is
\* a valid target, else hiragana, and the mode is the second segment if
\* that is a valid mode, else normal; the separate mode field is ignored.
C7_TotalWithPerFieldFallback ==
  /\ ~Decoded => ENABLED Decode
  /\ Decoded =>
       /\ IsValidTo(pout.to) /\ IsValidMode(pout.mode)
       /\ (pin.model.t = "string" /\ "-" \in {pin.model.v[i] : i \in 1..Len(pin.model.v)}) =>
            LET first == Str(FirstSegment(pin.model.v))
                second == Str(SecondSegment(pin.model.v))
            IN  /\ pout.to = (IF IsValidTo(first) THEN first ELSE Str(<<"hiragana">>))
                /\ pout.mode = (IF IsValidMode(second) THEN second ELSE Str(<<"normal">>))

C7_Witness ==
  /\ Decoded
  /\ pin = [model |-> Str(<<"bogus", "-", "spaced", "-">>), mode |-> Str(<<"furigana">>)]
  /\ pout = [to |-> Str(<<"hiragana">>), mode |-> Str(<<"spaced">>)]

\* The frames of a whole stream for the converted string c.
AllFrames(c) ==
  [k \in 1..(Len(c) + 1) |->
     IF k <= Len(c) THEN [delta |-> <<c[k]>>, finish_reason |-> "null"]
     ELSE [delta |-> <<>>, finish_reason |-> "stop"]]

\* C8: a stream that is closed by its producer has emitted one content
\* frame per character of the converted string, in order, then one terminal
\* frame; while it is open it has emitted a prefix of the content frames;
\* after the close (or the client's cancel) no frame is emitted.
C8_StreamFrames ==
  /\ [](\A r \in Slots :
          /\ strm[r].state = "closed" => strm[r].frames = AllFrames(strm[r].converted)
          /\ strm[r].state \in {"readable", "cancelled"} =>
               /\ Len(strm[r].frames) \in 1..Len(strm[r].converted)
               /\ strm[r].frames = SubSeq(AllFrames(strm[r].converted), 1, Len(strm[r].frames)))
  /\ [][\A r \in Slots :
          (strm[r].state \in {"closed", "cancelled"} /\ strm'[r].state # "none") =>
            strm'[r].frames = strm[r].frames /\ strm'[r].state = strm[r].state]_vars

C8_Witness ==
  \E r \in Slots :
    /\ strm[r].state = "closed" /\ Len(strm[r].converted) >= 2
    /\ Len(strm[r].frames) = Len(strm[r].converted) + 1
    /\ strm[r].frames[Len(strm[r].frames)].finish_reason = "stop"

\* C9 as stated: in the plain handler the engine's convert always receives
\* a valid target and a valid mode.
C9_EngineGetsValidPair ==
  \A r \in Slots : (req[r].handler = "plain" /\ conv[r] # NoConv) =>
    IsValidTo(conv[r].to) /\ IsValidMode(conv[r].mode)

\* C9 amended: in the plain handler convert receives the submitted to and
\* mode unchanged, except that an absent field is replaced by hiragana and
\* by normal.
C9_DefaultsOnlyWhenAbsent ==
  \A r \in Slots : (req[r].handler = "plain" /\ conv[r] # NoConv) =>
    /\ conv[r].to = (IF req[r].body.to.t = "undefined" THEN Str(<<"hiragana">>) ELSE req[r].body.to)
    /\ conv[r].mode = (IF req[r].body.mode.t = "undefined" THEN Str(<<"normal">>) ELSE req[r].body.mode)

C9_Witness ==
  \E r \in Slots :
    /\ req[r].handler = "plain" /\ conv[r] # NoConv
    /\ req[r].body.to = Null /\ conv[r].to = Null
    /\ req[r].body.mode = Undef /\ conv[r].mode = Str(<<"normal">>)

\* C10: as long as no initialization has failed, the engine is constructed
\* once and its init invoked once in total, and every ensureInitialized
\* call uses that one handle.
C10_SingleInit ==
  (\A e \in 1..Len(engines) : engines[e] # "failed") =>
    /\ Len(engines) <= 1 /\ initCalls <= 1
    /\ \A r \in Slots : ens[r].how # "none" =>
         /\ Len(engines) = 1 /\ initCalls = 1
         /\ kuro = 1 /\ ens[r].eng = 1

C10_Witness ==
  \E r1, r2 \in Slots :
    /\ ens[r1].how = "started" /\ ens[r2].how = "noop" /\ ens[r2].seen = "pending"
    /\ engines = <<"pending">> /\ initCalls = 1

\* C11: whenever a request calls the engine's convert, the init of that
\* engine has already completed successfully; convert never runs on an
\* engine whose init is still pending or has failed.
C11_ConvertOnlyWhenReady ==
  \A r \in Slots : conv[r] # NoConv => conv[r].on = "ready"

====
